---- MODULE Spec2Model ----
(***************************************************************************)
(* The prediction session of the Respirex frontend.                        *)
(*                                                                         *)
(* The repository holds three React components that each own one upload /  *)
(* predict session:                                                        *)
(*   "page"   src/app/page.tsx        Home  (disease upload + annotation)  *)
(*   "legacy" src/unnamed/part_000    Home  (file upload for both models)  *)
(*   "App"    src/src/App.jsx         App   (file upload, reset button)    *)
(* Exactly one of them is mounted in a run (variable app).  Their useState *)
(* cells share names, so they share the model's variables; App.jsx calls   *)
(* the file cell selectedFile and the busy flag isLoading.                 *)
(*                                                                         *)
(* Encodings.  A JavaScript null is Null for strings, NullResult for the   *)
(* result object and NullTime for recordStartTime.  Times are integers in  *)
(* milliseconds; a value in seconds (x / 1000 in the source) is kept as an *)
(* integer number of tenths of a second (Seconds).                         *)
(***************************************************************************)
EXTENDS Integers, Sequences, FiniteSets, Bags, TLC

VARIABLES
    app,                \* which component is mounted
    file,               \* useState file / selectedFile
    selectedModel,      \* useState selectedModel
    isUploading,        \* useState isUploading / isLoading
    result,             \* useState result
    error,              \* useState error
    isRecording,        \* useState isRecording
    recordStartTime,    \* useState recordStartTime
    annotationEvents,   \* useState annotationEvents
    recordingDuration,  \* useState recordingDuration
    now,                \* Date.now()
    inflight,           \* bag of the axios requests issued and not yet settled
    isPlaying,          \* useState isPlaying
    audio,              \* the <audio> element behind audioRef
    calls               \* the handlers called by the harness of HandlerSpec, in order

vars == <<app, file, selectedModel, isUploading, result, error, isRecording,
          recordStartTime, annotationEvents, recordingDuration, now,
          inflight, isPlaying, audio, calls>>

input == <<file, annotationEvents, recordingDuration, selectedModel>>
recording == <<isRecording, recordStartTime, annotationEvents, recordingDuration>>

-----------------------------------------------------------------------------
(* Bounds *)

MaxFiles == 2        \* distinct audio files the user can pick
MaxInflight == 2     \* requests outstanding at the same time
MaxTicks == 1        \* clock ticks in one run
MaxEvents == 1       \* tag presses kept in one recording
MaxCalls == 2        \* handler calls made on one set-up state in HandlerSpec
MaxClasses == 6      \* entries of a class_probabilities map
MaxProb == 2         \* distinct non-zero probability values of a map
MaxDuration == 3     \* length of the analysed audio, in steps of TimeStep
MaxIntervals == 1    \* detected intervals in one response
MaxMediaEvents == 2  \* media events queued by the audio element and not yet dispatched

-----------------------------------------------------------------------------
(* Values *)

Null == "null"
NullResult == [null |-> TRUE]
\* a newly created <audio> element: paused, no media event queued
NewAudio == [paused |-> TRUE, events |-> <<>>]
NullTime == 0

Components == {"page", "legacy", "App"}
FileNames == {"a.wav", "b.wav", "c.wav", "d.wav"}
FileName(i) == CASE i = 1 -> "a.wav" [] i = 2 -> "b.wav" [] i = 3 -> "c.wav" [] OTHER -> "d.wav"
Files == {FileName(i) : i \in 1..MaxFiles}

T0 == 1000           \* Date.now() when the component mounts (any positive value)
TickMs == 500        \* milliseconds per clock tick

selectedFile == file
isLoading == isUploading


Models == IF app = "App" THEN {"disease", "event"} ELSE {"disease", "annotation"}

(* axios.post is configured with timeout: 30000 in both Home components    *)
(* and with no timeout (axios default 0 = never) in App.jsx.               *)
TimeoutMs == 30000
NoTimeout == 0

API_BASE_URL ==
    CASE app = "page" -> "https://respirex-api-ml.onrender.com"
      [] app = "legacy" -> "https://my-backend.onrender.com"
      [] OTHER -> "http://localhost:8000"

modelOptions ==
    [disease |-> [endpoint |-> "/predict_disease"],
     event |-> [endpoint |-> "/predict_event"]]

Multipart == "multipart/form-data"
Json == "application/json"

\* mutant: the file is appended under another field name
FormDataWrongField(f) == <<[name |-> "audio", value |-> f]>>

(* new FormData(); formData.append('file', f) *)
FormData(f) == <<[name |-> "file", value |-> f]>>

-----------------------------------------------------------------------------
(* User-facing messages *)

MsgServerError == "Server error. Please try again later."
MsgTimeoutFile == "Request timeout. The audio file might be too large."
MsgTimeoutAnnotation == "Request timeout. Please try again."
MsgInvalidAudio == "Invalid audio file. Please upload a valid audio file."
MsgNoEvents == "Please record some crackles or wheezes first."
MsgConnection == "Failed to process audio file. Please check your connection and try again."
MsgSelectFile == "Please select an audio file first"
MsgGeneric == "An error occurred while processing the audio file"
ErrorPrefix == "Error: "
FailedAudioPrefix == "Failed to process audio file: "
FailedAnnotationPrefix == "Failed to process annotation data: "

-----------------------------------------------------------------------------
(* What the transport hands to the catch block: an AxiosError.             *)
(* err.response is NoResponse when the request never got an answer.        *)

NoResponse == [absent |-> TRUE]
Undefined == 0

Statuses == {400, 404, 500, 503}
StatusText(s) ==
    CASE s = 400 -> "400" [] s = 404 -> "404" [] s = 500 -> "500" [] OTHER -> "503"

ServerMessage == "Unsupported audio format"
\* error bodies: no message, an empty or a real message under the key
\* 'error', a message under the key 'detail'
ErrorBodies ==
    {[error |-> Null, detail |-> Null], [error |-> "", detail |-> Null],
     [error |-> ServerMessage, detail |-> Null],
     [error |-> Null, detail |-> ServerMessage]}

HttpError(s, data) ==
    [response |-> [status |-> s, data |-> data],
     code |-> IF s >= 500 THEN "ERR_BAD_RESPONSE" ELSE "ERR_BAD_REQUEST",
     message |-> "Request failed with status code " \o StatusText(s)]

TimeoutError ==
    [response |-> NoResponse, code |-> "ECONNABORTED",
     message |-> "timeout of 30000ms exceeded"]

NetworkError ==
    [response |-> NoResponse, code |-> "ERR_NETWORK", message |-> "Network Error"]

\* the failures the transport can produce for request r
Errors(r) ==
    {HttpError(s, data) : s \in Statuses, data \in ErrorBodies}
      \cup {NetworkError}
      \cup (IF r.timeout > 0 THEN {TimeoutError} ELSE {})

\* err.response?.status, err.response?.data?.error, err.response?.data?.detail
Status(err) == IF err.response = NoResponse THEN Undefined ELSE err.response.status
DataError(err) == IF err.response = NoResponse THEN Null ELSE err.response.data.error
DataDetail(err) == IF err.response = NoResponse THEN Null ELSE err.response.data.detail
\* JavaScript truthiness of a string-or-null
Truthy(s) == s # Null /\ s # ""

-----------------------------------------------------------------------------
(* The catch blocks: the error text shown for a failed request *)

\* mutant: the catch block does not look at the error body
catchDiseaseIgnoresBody(err) ==
    IF Status(err) = 500 THEN MsgServerError
    ELSE IF err.code = "ECONNABORTED" THEN MsgTimeoutFile
    ELSE IF Status(err) = 400 THEN MsgInvalidAudio
    ELSE FailedAudioPrefix \o err.message

catchDisease(err) ==
    IF Status(err) = 500 THEN MsgServerError
    ELSE IF Truthy(DataError(err)) THEN ErrorPrefix \o DataError(err)
    ELSE IF err.code = "ECONNABORTED" THEN MsgTimeoutFile
    ELSE IF Status(err) = 400 THEN MsgInvalidAudio
    ELSE FailedAudioPrefix \o err.message

\* mutant: the catch block has no branch for ECONNABORTED
catchAnnotationNoTimeout(err) ==
    IF Status(err) = 500 THEN MsgServerError
    ELSE IF Truthy(DataError(err)) THEN ErrorPrefix \o DataError(err)
    ELSE FailedAnnotationPrefix \o err.message

catchAnnotation(err) ==
    IF Status(err) = 500 THEN MsgServerError
    ELSE IF Truthy(DataError(err)) THEN ErrorPrefix \o DataError(err)
    ELSE IF err.code = "ECONNABORTED" THEN MsgTimeoutAnnotation
    ELSE FailedAnnotationPrefix \o err.message

catchLegacy(err) ==
    IF Status(err) = 500 THEN MsgServerError
    ELSE IF err.code = "ECONNABORTED" THEN MsgTimeoutFile
    ELSE IF Status(err) = 400 THEN MsgInvalidAudio
    ELSE MsgConnection

catchPredict(err) ==
    IF Truthy(DataDetail(err)) THEN DataDetail(err) ELSE MsgGeneric

\* the catch block that belongs to the awaiting call r.cont
Catch(r, err) ==
    CASE r.cont = "disease" -> catchDisease(err)
      [] r.cont = "annotation" -> catchAnnotation(err)
      [] r.cont = "legacy" -> catchLegacy(err)
      [] OTHER -> catchPredict(err)

-----------------------------------------------------------------------------
(* Response bodies (response.data of a 2xx answer).  The classification    *)
(* shape carries class_probabilities, the event-detection shape carries    *)
(* events; both echo the uploaded file's name.                             *)

RequestFile(r) == IF r.contentType = Multipart THEN r.data[1].value ELSE Null

(* class_probabilities is a Record<string, number>.  A JavaScript object    *)
(* keeps its string keys in the order of the response text, so the map is  *)
(* the sequence of its properties; probabilities are in percent.           *)
DiseasePredictionResult(fn) ==
    [success |-> TRUE, filename |-> fn, prediction |-> "COPD", confidence |-> 90,
     class_probabilities |-> <<[key |-> "COPD", value |-> 90],
                               [key |-> "Healthy", value |-> 10]>>,
     audio_info |-> [duration |-> 2000, sample_rate |-> 22050]]

AnnotationPredictionResult(fn, evs) ==
    [success |-> TRUE, filename |-> fn, disease |-> "COPD", confidence |-> 80,
     events |-> evs,
     audio_info |-> [duration |-> 2000, sample_rate |-> 22050]]

DetectedEvents ==
    {<<>>, <<[start |-> 500, end |-> 1500, label |-> "wheeze", confidence |-> 70]>>}

\* the bodies the service can answer request r with
Bodies(r) ==
    IF r.endpoint = "/predict_disease"
    THEN {DiseasePredictionResult(RequestFile(r))}
    ELSE {AnnotationPredictionResult(RequestFile(r), evs) : evs \in DetectedEvents}

-----------------------------------------------------------------------------
(* Time.  Seconds are kept in tenths of a second: ms / 1000 seconds is the *)
(* integer ms / 100.                                                       *)

Seconds(ms) == ms \div 100
CrackleDuration == 5     \* duration: 0.5
WheezeDuration == 10     \* duration: 1.0

Tick ==
    /\ now < T0 + MaxTicks * TickMs
    /\ now' = now + TickMs
    /\ UNCHANGED <<app, file, selectedModel, isUploading, result, error,
                   recording, inflight>>

-----------------------------------------------------------------------------
(* Initial state: the useState defaults of the mounted component *)

Init ==
    /\ app \in Components
    /\ file = Null
    /\ selectedModel = "disease"
    /\ isUploading = FALSE
    /\ result = NullResult
    /\ error = Null
    /\ isRecording = FALSE
    /\ recordStartTime = NullTime
    /\ annotationEvents = <<>>
    /\ recordingDuration = 0
    /\ now = T0
    /\ inflight = EmptyBag
    /\ isPlaying = FALSE
    /\ audio = NewAudio
    /\ calls = <<>>

-----------------------------------------------------------------------------
(* axios.post(url, data, config): the request leaves, the caller awaits.   *)
(* cont names the awaiting handler branch whose try/catch/finally runs at  *)
(* settlement.                                                             *)

Request(endpoint, contentType, data, timeout, cont) ==
    [url |-> API_BASE_URL \o endpoint, endpoint |-> endpoint,
     contentType |-> contentType, data |-> data, timeout |-> timeout, cont |-> cont]

Post(req) ==
    /\ BagCardinality(inflight) < MaxInflight
    /\ inflight' = inflight (+) SetToBag({req})

-----------------------------------------------------------------------------
(* Input collection *)

\* what a drop or a file dialog can deliver: no file, one file, two files
FileLists ==
    {<<>>} \cup {<<f>> : f \in Files}
           \cup {<<pair[1], pair[2]>> : pair \in {q \in Files \X Files : q[1] # q[2]}}

\* mutant: the drop handler stores acceptedFiles[0] without looking at the
\* length of the list, so an empty drop clears the session
onDropUnchecked(acceptedFiles) ==
    /\ app \in {"page", "legacy"}
    /\ file' = (IF Len(acceptedFiles) > 0 THEN acceptedFiles[1] ELSE Null)
    /\ error' = Null
    /\ result' = NullResult
    /\ UNCHANGED <<app, selectedModel, isUploading, recording, now, inflight>>

onDrop(acceptedFiles) ==
    /\ app \in {"page", "legacy"}
    /\ IF Len(acceptedFiles) > 0
       THEN /\ file' = acceptedFiles[1]
            /\ error' = Null
            /\ result' = NullResult
       ELSE UNCHANGED <<file, error, result>>
    /\ UNCHANGED <<app, selectedModel, isUploading, recording, now, inflight>>

handleFileChange(files) ==
    /\ app = "App"
    /\ IF Len(files) > 0
       THEN /\ file' = files[1]
            /\ result' = NullResult
            /\ error' = Null
       ELSE UNCHANGED <<file, error, result>>
    /\ UNCHANGED <<app, selectedModel, isUploading, recording, now, inflight>>

\* mutant: removing the file also discards the held result
removeFileClearsResult ==
    /\ app \in {"page", "legacy"}
    /\ file' = Null
    /\ result' = NullResult
    /\ UNCHANGED <<app, selectedModel, isUploading, error, recording,
                   now, inflight>>

\* onClick={() => setFile(null)}
removeFile ==
    /\ app \in {"page", "legacy"}
    /\ file' = Null
    /\ UNCHANGED <<app, selectedModel, isUploading, result, error, recording,
                   now, inflight>>

\* mutant: choosing another model also discards the collected input and
\* the held result
setSelectedModelResets(m) ==
    /\ selectedModel' = m
    /\ file' = Null
    /\ annotationEvents' = <<>>
    /\ result' = NullResult
    /\ UNCHANGED <<app, isUploading, error, isRecording, recordStartTime,
                   recordingDuration, now, inflight>>

\* onChange={(e) => setSelectedModel(e.target.value)}
setSelectedModel(m) ==
    /\ selectedModel' = m
    /\ UNCHANGED <<app, file, isUploading, result, error, recording, now,
                   inflight>>

\* mutant: the reset forgets the file but leaves the result on screen
resetFormKeepsResult ==
    /\ app = "App"
    /\ file' = Null
    /\ error' = Null
    /\ UNCHANGED <<app, selectedModel, isUploading, result, recording, now, inflight>>

resetForm ==
    /\ app = "App"
    /\ file' = Null
    /\ result' = NullResult
    /\ error' = Null
    /\ UNCHANGED <<app, selectedModel, isUploading, recording, now, inflight>>

-----------------------------------------------------------------------------
(* Annotation recording (page.tsx) *)

\* mutant: a new recording leaves the previous error on screen
startRecordingKeepsError ==
    /\ app = "page"
    /\ isRecording' = TRUE
    /\ recordStartTime' = now
    /\ annotationEvents' = <<>>
    /\ recordingDuration' = 0
    /\ result' = NullResult
    /\ UNCHANGED <<app, file, selectedModel, isUploading, error, now, inflight>>

startRecording ==
    /\ app = "page"
    /\ isRecording' = TRUE
    /\ recordStartTime' = now
    /\ annotationEvents' = <<>>
    /\ recordingDuration' = 0
    /\ error' = Null
    /\ result' = NullResult
    /\ UNCHANGED <<app, file, selectedModel, isUploading, now, inflight>>

\* mutant: stopping leaves the start time of the window in place
stopRecordingKeepsStart ==
    /\ app = "page"
    /\ isRecording' = FALSE
    /\ IF recordStartTime # NullTime
       THEN recordingDuration' = Seconds(now - recordStartTime)
       ELSE UNCHANGED recordingDuration
    /\ UNCHANGED <<app, file, selectedModel, isUploading, result, error,
                   recordStartTime, annotationEvents, now, inflight>>

stopRecording ==
    /\ app = "page"
    /\ isRecording' = FALSE
    /\ IF recordStartTime # NullTime
       THEN recordingDuration' = Seconds(now - recordStartTime)
       ELSE UNCHANGED recordingDuration
    /\ recordStartTime' = NullTime
    /\ UNCHANGED <<app, file, selectedModel, isUploading, result, error,
                   annotationEvents, now, inflight>>

\* mutant: a tag press is recorded whether or not a recording is running
addEventAlways(type, duration) ==
    /\ app = "page"
    /\ LET timestamp == IF recordStartTime # NullTime
                        THEN Seconds(now - recordStartTime) ELSE 0
       IN annotationEvents' =
              Append(annotationEvents,
                     [type |-> type, timestamp |-> timestamp, duration |-> duration])
    /\ UNCHANGED <<app, file, selectedModel, isUploading, result, error,
                   isRecording, recordStartTime, recordingDuration, now,
                   inflight>>

\* mutant: the new event is put in front of the recorded ones
addEventInFront(type, duration) ==
    /\ app = "page"
    /\ IF ~isRecording
       THEN UNCHANGED annotationEvents
       ELSE LET timestamp == IF recordStartTime # NullTime
                             THEN Seconds(now - recordStartTime) ELSE 0
            IN annotationEvents' =
                   <<[type |-> type, timestamp |-> timestamp, duration |-> duration]>>
                     \o annotationEvents
    /\ UNCHANGED <<app, file, selectedModel, isUploading, result, error,
                   isRecording, recordStartTime, recordingDuration, now,
                   inflight>>

\* the shared body of addCrackle and addWheeze
addEvent(type, duration) ==
    /\ app = "page"
    /\ IF ~isRecording
       THEN UNCHANGED annotationEvents
       ELSE LET timestamp == IF recordStartTime # NullTime
                             THEN Seconds(now - recordStartTime) ELSE 0
            IN annotationEvents' =
                   Append(annotationEvents,
                          [type |-> type, timestamp |-> timestamp, duration |-> duration])
    /\ UNCHANGED <<app, file, selectedModel, isUploading, result, error,
                   isRecording, recordStartTime, recordingDuration, now,
                   inflight>>

addCrackle == addEvent("crackle", CrackleDuration)
addWheeze == addEvent("wheeze", WheezeDuration)

clearAnnotations ==
    /\ app = "page"
    /\ annotationEvents' = <<>>
    /\ recordingDuration' = 0
    /\ result' = NullResult
    /\ UNCHANGED <<app, file, selectedModel, isUploading, error, isRecording,
                   recordStartTime, now, inflight>>

-----------------------------------------------------------------------------
(* Submission *)

\* mutant: the annotation branch submits without checking for events
handleUploadSkipsEventCheck ==
    /\ app = "page"
    /\ IF selectedModel = "disease"
       THEN IF file = Null
            THEN UNCHANGED <<isUploading, error, inflight>>
            ELSE /\ isUploading' = TRUE
                 /\ error' = Null
                 /\ Post(Request("/predict_disease", Multipart, FormData(file),
                                 TimeoutMs, "disease"))
       ELSE /\ isUploading' = TRUE
            /\ error' = Null
            /\ Post(Request("/predict_annotation", Json,
                            [events |-> annotationEvents,
                             duration |-> recordingDuration],
                            TimeoutMs, "annotation"))
    /\ UNCHANGED <<app, file, selectedModel, result, recording, now>>

\* mutant: the annotation branch uploads the held file like the disease branch
handleUploadAlwaysFile ==
    /\ app = "page"
    /\ IF selectedModel = "disease"
       THEN IF file = Null
            THEN UNCHANGED <<isUploading, error, inflight>>
            ELSE /\ isUploading' = TRUE
                 /\ error' = Null
                 /\ Post(Request("/predict_disease", Multipart, FormData(file),
                                 TimeoutMs, "disease"))
       ELSE IF Len(annotationEvents) = 0
            THEN /\ error' = MsgNoEvents
                 /\ UNCHANGED <<isUploading, inflight>>
            ELSE /\ isUploading' = TRUE
                 /\ error' = Null
                 /\ Post(Request("/predict_annotation", Multipart, FormData(file),
                                 TimeoutMs, "annotation"))
    /\ UNCHANGED <<app, file, selectedModel, result, recording, now>>

\* page.tsx handleUpload, up to the await
handleUpload ==
    /\ app = "page"
    /\ IF selectedModel = "disease"
       THEN IF file = Null
            THEN UNCHANGED <<isUploading, error, inflight>>
            ELSE /\ isUploading' = TRUE
                 /\ error' = Null
                 /\ Post(Request("/predict_disease", Multipart, FormData(file),
                                 TimeoutMs, "disease"))
       ELSE IF Len(annotationEvents) = 0
            THEN /\ error' = MsgNoEvents
                 /\ UNCHANGED <<isUploading, inflight>>
            ELSE /\ isUploading' = TRUE
                 /\ error' = Null
                 /\ Post(Request("/predict_annotation", Json,
                                 [events |-> annotationEvents,
                                  duration |-> recordingDuration],
                                 TimeoutMs, "annotation"))
    /\ UNCHANGED <<app, file, selectedModel, result, recording, now>>

\* mutant: the submit does not clear the error of the previous attempt
handleUploadLegacyKeepsError ==
    /\ app = "legacy"
    /\ IF file = Null
       THEN UNCHANGED <<isUploading, inflight>>
       ELSE /\ isUploading' = TRUE
            /\ LET endpoint == IF selectedModel = "disease"
                               THEN "/predict_disease" ELSE "/predict_annotation"
               IN Post(Request(endpoint, Multipart, FormData(file), TimeoutMs, "legacy"))
    /\ UNCHANGED <<app, file, selectedModel, result, error, recording, now>>

\* part_000 handleUpload, up to the await
handleUploadLegacy ==
    /\ app = "legacy"
    /\ IF file = Null
       THEN UNCHANGED <<isUploading, error, inflight>>
       ELSE /\ isUploading' = TRUE
            /\ error' = Null
            /\ LET endpoint == IF selectedModel = "disease"
                               THEN "/predict_disease" ELSE "/predict_annotation"
               IN Post(Request(endpoint, Multipart, FormData(file), TimeoutMs, "legacy"))
    /\ UNCHANGED <<app, file, selectedModel, result, recording, now>>

\* App.jsx handlePredict, up to the await
handlePredict ==
    /\ app = "App"
    /\ IF selectedFile = Null
       THEN /\ error' = MsgSelectFile
            /\ UNCHANGED <<isUploading, result, inflight>>
       ELSE /\ isUploading' = TRUE
            /\ error' = Null
            /\ result' = NullResult
            /\ Post(Request(modelOptions[selectedModel].endpoint, Multipart,
                            FormData(selectedFile), NoTimeout, "predict"))
    /\ UNCHANGED <<app, file, selectedModel, recording, now>>

-----------------------------------------------------------------------------
(* Settlement: the awaited promise resolves or rejects and the rest of the *)
(* handler runs (setResult, or the catch block, then finally).             *)

\* mutant: the response is merged into the result already held
ResolveMergesResult(r, data) ==
    /\ result' = [k \in DOMAIN data \cup DOMAIN result |->
                     IF k \in DOMAIN data THEN data[k] ELSE result[k]]
    /\ isUploading' = FALSE
    /\ inflight' = inflight (-) SetToBag({r})
    /\ UNCHANGED <<app, file, selectedModel, error, recording, now>>

\* mutant: the busy flag is reset in the catch block only
ResolveKeepsBusy(r, data) ==
    /\ result' = data
    /\ inflight' = inflight (-) SetToBag({r})
    /\ UNCHANGED <<app, file, selectedModel, isUploading, error, recording, now>>

Resolve(r, data) ==
    /\ result' = data
    /\ isUploading' = FALSE
    /\ inflight' = inflight (-) SetToBag({r})
    /\ UNCHANGED <<app, file, selectedModel, error, recording, now>>

\* mutant: a failure discards what the user had collected
RejectDropsInput(r, err) ==
    /\ error' = Catch(r, err)
    /\ isUploading' = FALSE
    /\ inflight' = inflight (-) SetToBag({r})
    /\ file' = Null
    /\ annotationEvents' = <<>>
    /\ UNCHANGED <<app, selectedModel, result, isRecording, recordStartTime,
                   recordingDuration, now>>

\* mutant: the catch block runs but no finally resets the busy flag
RejectWithoutFinally(r, err) ==
    /\ error' = Catch(r, err)
    /\ inflight' = inflight (-) SetToBag({r})
    /\ UNCHANGED <<app, file, selectedModel, isUploading, result, recording, now>>

Reject(r, err) ==
    /\ error' = Catch(r, err)
    /\ isUploading' = FALSE
    /\ inflight' = inflight (-) SetToBag({r})
    /\ UNCHANGED <<app, file, selectedModel, result, recording, now>>

Settle ==
    \E r \in BagToSet(inflight) :
        \/ \E data \in Bodies(r) : Resolve(r, data)
        \/ \E err \in Errors(r) : Reject(r, err)

-----------------------------------------------------------------------------
(* The audio player.  The <audio> element exists while the events block of  *)
(* the result is rendered; audioRef.current is null otherwise.  Of the      *)
(* element the model keeps its paused attribute and the media events it has *)
(* queued for its listeners; its src attribute is the held file.            *)

\* {('events' in result && result.events.length > 0) && ( ... <audio/> ... )}
PlayerRendered(res) ==
    /\ app \in {"page", "legacy"}
    /\ "events" \in DOMAIN res
    /\ Len(res.events) > 0

\* audioRef.current
Mounted == PlayerRendered(result)

\* src={file ? URL.createObjectURL(file) : undefined}
HasSource == file # Null

\* the render that follows a state change keeps the element while the events
\* block stays rendered, and creates or removes it with the block; an
\* element that is removed takes its queued events with it
Commit ==
    audio' = IF PlayerRendered(result) /\ PlayerRendered(result')
             THEN audio
             ELSE NewAudio

\* audioRef.current.play(): an element without a source may refuse to start
play(accepted) ==
    IF audio.paused /\ accepted
    THEN audio' = [paused |-> FALSE, events |-> Append(audio.events, "play")]
    ELSE UNCHANGED audio

\* audioRef.current.pause()
pause ==
    IF audio.paused
    THEN UNCHANGED audio
    ELSE audio' = [paused |-> TRUE, events |-> Append(audio.events, "pause")]

togglePlayPause ==
    /\ IF Mounted
       THEN /\ IF isPlaying
               THEN pause
               ELSE \E accepted \in (IF HasSource THEN {TRUE} ELSE BOOLEAN) :
                       play(accepted)
            /\ isPlaying' = ~isPlaying
       ELSE UNCHANGED <<isPlaying, audio>>
    /\ UNCHANGED <<app, file, selectedModel, isUploading, result, error,
                   recording, now, inflight>>

\* onPlay={() => setIsPlaying(true)}, onPause={() => setIsPlaying(false)},
\* onEnded={() => setIsPlaying(false)}: the oldest queued event is dispatched
MediaEvent ==
    /\ Mounted
    /\ Len(audio.events) > 0
    /\ isPlaying' = (Head(audio.events) = "play")
    /\ audio' = [audio EXCEPT !.events = Tail(@)]
    /\ UNCHANGED <<app, file, selectedModel, isUploading, result, error,
                   recording, now, inflight>>

\* playback reaches the end of the audio: the element pauses itself and
\* queues pause, then ended
Ended ==
    /\ Mounted /\ HasSource /\ ~audio.paused
    /\ Len(audio.events) + 2 <= MaxMediaEvents
    /\ audio' = [paused |-> TRUE,
                 events |-> audio.events \o <<"pause", "ended">>]
    /\ UNCHANGED <<app, file, selectedModel, isUploading, result, error,
                   recording, now, inflight, isPlaying>>

\* URL.createObjectURL(file) gives the src attribute a new URL; an element
\* that loads a new source pauses and drops its queued events
Reload ==
    /\ Mounted /\ HasSource
    /\ audio # NewAudio
    /\ audio' = NewAudio
    /\ UNCHANGED <<app, file, selectedModel, isUploading, result, error,
                   recording, now, inflight, isPlaying>>

-----------------------------------------------------------------------------
(* What the render puts on screen: a handler can be reached by the user    *)
(* only through a control that is rendered and not disabled.               *)

\* mutant: the button does not look at isUploading
UploadDisabledIgnoresBusy ==
    \/ (selectedModel = "disease" /\ file = Null)
    \/ (selectedModel = "annotation" /\ Len(annotationEvents) = 0)

\* page.tsx: disabled={...} of the Upload button
UploadDisabled ==
    \/ (selectedModel = "disease" /\ file = Null)
    \/ (selectedModel = "annotation" /\ Len(annotationEvents) = 0)
    \/ isUploading

\* part_000: disabled={!file || isUploading}
UploadDisabledLegacy == file = Null \/ isUploading

\* App.jsx: disabled={isLoading || !selectedFile}
PredictDisabled == isLoading \/ selectedFile = Null

\* page.tsx renders the dropzone for the disease model only, part_000 always
DropzoneRendered == app = "legacy" \/ selectedModel = "disease"

\* page.tsx renders the recording controls for the annotation model only
RecorderRendered == app = "page" /\ selectedModel = "annotation"

\* a step of the session proper: the harness is not involved
Live == UNCHANGED <<calls, isPlaying>> /\ Commit

DropFiles == \E fs \in FileLists : DropzoneRendered /\ onDrop(fs) /\ Live
ChooseFiles == \E fs \in FileLists : handleFileChange(fs) /\ Live
ClickRemove == file # Null /\ removeFile /\ Live
SelectModel == \E m \in Models \ {selectedModel} : setSelectedModel(m) /\ Live
ClickReset == resetForm /\ Live
ClickStart == RecorderRendered /\ ~isRecording /\ startRecording /\ Live
ClickStop == RecorderRendered /\ isRecording /\ stopRecording /\ Live
\* the user presses a tag at most MaxEvents times in one recording
ClickCrackle ==
    /\ RecorderRendered /\ isRecording
    /\ Len(annotationEvents) < MaxEvents
    /\ addCrackle /\ Live
ClickWheeze ==
    /\ RecorderRendered /\ isRecording
    /\ Len(annotationEvents) < MaxEvents
    /\ addWheeze /\ Live
ClickClear == RecorderRendered /\ Len(annotationEvents) > 0 /\ clearAnnotations /\ Live
ClickUpload == ~UploadDisabled /\ handleUpload /\ Live
ClickUploadLegacy == ~UploadDisabledLegacy /\ handleUploadLegacy /\ Live
ClickPredict == ~PredictDisabled /\ handlePredict /\ Live
Settlement == Settle /\ Live
ClockTick == Tick /\ Live

\* the session as the user drives it
Next ==
    \/ DropFiles
    \/ ChooseFiles
    \/ ClickRemove
    \/ SelectModel
    \/ ClickReset
    \/ ClickStart
    \/ ClickStop
    \/ ClickCrackle
    \/ ClickWheeze
    \/ ClickClear
    \/ ClickUpload
    \/ ClickUploadLegacy
    \/ ClickPredict
    \/ Settlement
    \/ ClockTick

Spec == Init /\ [][Next]_vars

\* the transport settles every request: it answers, fails, or the client
\* timeout fires
FairSpec == Spec /\ WF_vars(Settlement)

(* The session with the audio player operated as well. *)
\* the user presses the play/pause button while the element has room to
\* queue an event
ClickPlayPause ==
    /\ Mounted
    /\ Len(audio.events) < MaxMediaEvents
    /\ togglePlayPause /\ UNCHANGED calls
DispatchMediaEvent == MediaEvent /\ UNCHANGED calls
PlaybackEnds == Ended /\ UNCHANGED calls
SourceReloads == Reload /\ UNCHANGED calls

PlayerNext ==
    \/ Next
    \/ ClickPlayPause
    \/ DispatchMediaEvent
    \/ PlaybackEnds
    \/ SourceReloads

PlayerSpec == Init /\ [][PlayerNext]_vars

(* The handlers as functions under test: the session is set up in a state *)
(* it can be in with no request outstanding, and one handler is called,    *)
(* whatever the render shows (the handlers carry their own checks for      *)
(* being called without input).                                            *)
RecordedEvents ==
    {<<>>, <<[type |-> "crackle", timestamp |-> 0, duration |-> CrackleDuration]>>}

HandlerInit ==
    /\ app \in Components
    /\ file \in {Null} \cup Files
    /\ selectedModel \in Models
    /\ isUploading = FALSE
    /\ inflight = EmptyBag
    /\ result = NullResult
    /\ error \in {Null, IF app = "App" THEN MsgGeneric ELSE MsgServerError}
    /\ isRecording \in (IF app = "page" THEN BOOLEAN ELSE {FALSE})
    /\ recordStartTime = (IF isRecording THEN T0 ELSE NullTime)
    /\ annotationEvents \in (IF app = "page" THEN RecordedEvents ELSE {<<>>})
    /\ recordingDuration = 0
    /\ now \in {T0 + k * TickMs : k \in 0..MaxTicks}
    /\ isPlaying = FALSE
    /\ audio = NewAudio
    /\ calls = <<>>

Called(handler) ==
    /\ Len(calls) < MaxCalls
    /\ calls' = Append(calls, handler)
    /\ UNCHANGED isPlaying
    /\ Commit

CallOnDrop == \E fs \in FileLists : onDrop(fs) /\ Called("onDrop")
CallHandleFileChange == \E fs \in FileLists : handleFileChange(fs) /\ Called("handleFileChange")
CallSetSelectedModel == \E m \in Models : setSelectedModel(m) /\ Called("setSelectedModel")

CallRemoveFile == removeFile /\ Called("removeFile")
CallResetForm == resetForm /\ Called("resetForm")
CallStartRecording == startRecording /\ Called("startRecording")
CallStopRecording == stopRecording /\ Called("stopRecording")
CallAddCrackle == addCrackle /\ Called("addCrackle")
CallAddWheeze == addWheeze /\ Called("addWheeze")
CallClearAnnotations == clearAnnotations /\ Called("clearAnnotations")
CallHandleUpload == handleUpload /\ Called("handleUpload")
CallHandleUploadLegacy == handleUploadLegacy /\ Called("handleUpload")
CallHandlePredict == handlePredict /\ Called("handlePredict")

\* time passes between two calls
AdvanceClock == Tick /\ Live

HandlerNext ==
    \/ AdvanceClock
    \/ CallOnDrop
    \/ CallHandleFileChange
    \/ CallRemoveFile
    \/ CallSetSelectedModel
    \/ CallResetForm
    \/ CallStartRecording
    \/ CallStopRecording
    \/ CallAddCrackle
    \/ CallAddWheeze
    \/ CallClearAnnotations
    \/ CallHandleUpload
    \/ CallHandleUploadLegacy
    \/ CallHandlePredict

HandlerSpec == HandlerInit /\ [][HandlerNext]_vars

-----------------------------------------------------------------------------
(* The probability list of a classification result: the render shows       *)
(* Object.entries(result.class_probabilities).sort(([,a], [,b]) => b - a), *)
(* in page.tsx followed by .slice(0, 5).                                   *)

\* Object.entries: the [key, value] pairs in property order
ObjectEntries(obj) == [i \in 1..Len(obj) |-> <<obj[i].key, obj[i].value>>]

\* mutant: the comparator orders by ascending probability
compareFnAscending(x, y) == x[2] - y[2]

\* ([,a], [,b]) => b - a
compareFn(x, y) == y[2] - x[2]

\* one step of the stable sort Array.prototype.sort is specified to be: x
\* goes behind the last entry that does not have to come after it
Insert(sorted, x) ==
    LET notAfter == {i \in 1..Len(sorted) : compareFn(sorted[i], x) <= 0}
        k == IF notAfter = {} THEN 0
             ELSE CHOOSE i \in notAfter : \A j \in notAfter : j <= i
    IN SubSeq(sorted, 1, k) \o <<x>> \o SubSeq(sorted, k + 1, Len(sorted))

RECURSIVE SortFrom(_, _, _)
SortFrom(entries, i, sorted) ==
    IF i > Len(entries) THEN sorted
    ELSE SortFrom(entries, i + 1, Insert(sorted, entries[i]))

\* entries.sort(compareFn)
Sort(entries) == SortFrom(entries, 1, <<>>)

\* list.slice(begin, end) for 0 <= begin <= end
Slice(list, begin, end) ==
    SubSeq(list, begin + 1, IF end < Len(list) THEN end ELSE Len(list))

TopClasses == 5

\* the rows of 'All Disease Probabilities' the render shows for result res
ProbabilityList(res) ==
    LET sorted == Sort(ObjectEntries(res.class_probabilities))
    IN IF app = "page" THEN Slice(sorted, 0, TopClasses) ELSE sorted

\* 'class_probabilities' in result
ShowsProbabilities == "class_probabilities" \in DOMAIN result

(* The render as a function under test: a disease request is outstanding  *)
(* and the service answers it with any class-probability map.              *)
ClassLabel(i) ==
    CASE i = 1 -> "COPD" [] i = 2 -> "Healthy" [] i = 3 -> "Pneumonia"
      [] i = 4 -> "URTI" [] i = 5 -> "Bronchiectasis" [] i = 6 -> "Bronchiolitis"
      [] i = 7 -> "LRTI" [] OTHER -> "Asthma"

Probabilities == {10 * k : k \in 0..MaxProb}

\* the maps of n classes
ClassProbabilities(n) ==
    {[i \in 1..n |-> [key |-> ClassLabel(i), value |-> p[i]]] :
        p \in [1..n -> Probabilities]}

\* the request whose answer is rendered: the one the submit handler of the
\* mounted component issues for the selected model
RenderInit ==
    /\ app \in {"page", "legacy"}
    /\ file = FileName(1)
    /\ selectedModel \in Models
    /\ isUploading = TRUE
    /\ result = NullResult
    /\ error = Null
    /\ isRecording = FALSE
    /\ recordStartTime = NullTime
    /\ annotationEvents =
          (IF app = "page" /\ selectedModel = "annotation"
           THEN <<[type |-> "crackle", timestamp |-> 0, duration |-> CrackleDuration]>>
           ELSE <<>>)
    /\ recordingDuration = 0
    /\ now = T0
    /\ inflight =
          SetToBag({CASE app = "legacy" ->
                           Request(IF selectedModel = "disease" THEN "/predict_disease"
                                   ELSE "/predict_annotation",
                                   Multipart, FormData(file), TimeoutMs, "legacy")
                      [] app = "page" /\ selectedModel = "disease" ->
                           Request("/predict_disease", Multipart, FormData(file),
                                   TimeoutMs, "disease")
                      [] OTHER ->
                           Request("/predict_annotation", Json,
                                   [events |-> annotationEvents,
                                    duration |-> recordingDuration],
                                   TimeoutMs, "annotation")})
    /\ isPlaying = FALSE
    /\ audio = NewAudio
    /\ calls = <<>>

ReceiveProbabilities ==
    \E r \in BagToSet(inflight) : \E n \in 0..MaxClasses :
      \E probs \in ClassProbabilities(n) :
        /\ r.endpoint = "/predict_disease"
        /\ Resolve(r, [DiseasePredictionResult(RequestFile(r))
                         EXCEPT !.class_probabilities = probs])
        /\ Live

(* Well-formed event-detection responses: audio of duration d > 0 and n    *)
(* detected intervals with 0 <= start <= end <= d, on a grid of TimeStep.  *)
TimeStep == 500

Intervals(d) ==
    UNION {{[start |-> TimeStep * a, end |-> TimeStep * b, label |-> l,
             confidence |-> 70] : b \in a..d, l \in {"wheeze", "crackle"}} :
           a \in 0..d}

ReceiveEvents ==
    \E r \in BagToSet(inflight) : \E d \in 1..MaxDuration : \E n \in 1..MaxIntervals :
      \E evs \in [1..n -> Intervals(d)] :
        /\ r.endpoint = "/predict_annotation"
        /\ Resolve(r, [AnnotationPredictionResult(RequestFile(r), evs)
                         EXCEPT !.audio_info.duration = TimeStep * d])
        /\ Live

RenderNext ==
    \/ ReceiveProbabilities
    \/ ReceiveEvents

RenderSpec == RenderInit /\ [][RenderNext]_vars

-----------------------------------------------------------------------------
(* The event markers on the audio timeline.  A CSS percentage is the number *)
(* (x / total) * 100, kept exact as the fraction num / den.                 *)

\* (x / total) * 100
Percent(x, total) == [num |-> x * 100, den |-> total]

\* mutant: the width is computed from the end of the interval alone
MarkerWidthFromEnd(event, res) == Percent(event.end, res.audio_info.duration)

\* left: `${(event.start / result.audio_info.duration) * 100}%`
MarkerLeft(event, res) == Percent(event.start, res.audio_info.duration)

\* width: `${((event.end - event.start) / result.audio_info.duration) * 100}%`
MarkerWidth(event, res) == Percent(event.end - event.start, res.audio_info.duration)

\* result.events.map((event, index) => <div style={{ left, width }} />)
EventMarkers(res) ==
    [i \in 1..Len(res.events) |->
        [left |-> MarkerLeft(res.events[i], res),
         width |-> MarkerWidth(res.events[i], res)]]

\* 'events' in result && result.events.length > 0
ShowsEvents == "events" \in DOMAIN result /\ Len(result.events) > 0

-----------------------------------------------------------------------------
(* Claims *)

Outstanding == BagCardinality(inflight)

\* C1: in every reachable state at most one prediction request is in
\* flight, whatever the user does while a request is pending.
C1_AtMostOneInFlight == Outstanding <= 1

\* a request is pending, the user has dropped another file meanwhile, and
\* only isUploading keeps the submit button disabled
C1_Witness ==
    /\ Outstanding = 1
    /\ isUploading
    /\ app = "page" /\ selectedModel = "disease" /\ file # Null
    /\ \E r \in BagToSet(inflight) : RequestFile(r) # file

\* C2: every submission that enters Submitting eventually leaves it, with a
\* result or an error set, provided the transport settles the request.
C2_SubmittingEnds ==
    isUploading ~> (~isUploading /\ (result # NullResult \/ error # Null))

\* a request has settled and the session is Succeeded or Failed
C2_Witness ==
    /\ ~isUploading
    /\ Outstanding = 0
    /\ (result # NullResult \/ error # Null)

-----------------------------------------------------------------------------
(* Helpers of the claims *)

Pending == BagToSet(inflight)

\* the submit button of the mounted component is pressed
Submit == ClickUpload \/ ClickUploadLegacy \/ ClickPredict

\* a handler that submits is called by the harness
CallSubmit == CallHandleUpload \/ CallHandleUploadLegacy \/ CallHandlePredict

\* the submit control of the mounted component is disabled
SubmitDisabled ==
    CASE app = "page" -> UploadDisabled
      [] app = "legacy" -> UploadDisabledLegacy
      [] OTHER -> PredictDisabled

\* the input the selected model variant submits is held
InputHeld ==
    IF app = "page" /\ selectedModel = "annotation"
    THEN Len(annotationEvents) > 0
    ELSE file # Null

\* exactly the request req is issued by the step
Issues(req) ==
    /\ BagCardinality(inflight') = BagCardinality(inflight) + 1
    /\ inflight' = inflight (+) SetToBag({req})

\* a request leaves the outstanding ones in this step: it settles
Settling == BagCardinality(inflight') < BagCardinality(inflight)

Is4xx(status) == status >= 400 /\ status < 500
Is5xx(status) == status >= 500 /\ status < 600

\* the failure is a client timeout: code ECONNABORTED and no response
IsTimeout(err) == err.code = "ECONNABORTED" /\ err.response = NoResponse

\* the message field the awaiting handler reads from the error body
MessageOf(r, err) ==
    IF r.cont = "predict" THEN DataDetail(err) ELSE DataError(err)

\* the generic connectivity texts
GenericMessages(err) ==
    {FailedAudioPrefix \o err.message, FailedAnnotationPrefix \o err.message,
     MsgConnection, MsgGeneric}

-----------------------------------------------------------------------------
\* C3: a submit with the disease model selected and a file present issues
\* exactly one request, a multipart body carrying that file under the field
\* name 'file', to /predict_disease; a model switch while the request is in
\* flight leaves the request as issued.
C3_DiseaseRequest ==
    [][ /\ (Submit /\ selectedModel = "disease" /\ file # Null)
           => \E req \in BagToSet(inflight') :
                 /\ Issues(req)
                 /\ req.endpoint = "/predict_disease"
                 /\ req.url = API_BASE_URL \o "/predict_disease"
                 /\ req.contentType = Multipart
                 /\ Len(req.data) = 1
                 /\ req.data[1].name = "file"
                 /\ req.data[1].value = file
        /\ SelectModel => inflight' = inflight ]_vars

\* the disease request of file f is still in flight after the user has
\* switched to the annotation model
C3_Witness ==
    /\ app = "page"
    /\ selectedModel = "annotation"
    /\ file # Null
    /\ \E r \in Pending :
          /\ r.endpoint = "/predict_disease"
          /\ r.data = <<[name |-> "file", value |-> file]>>

\* C4: handleUpload called in annotation mode with no recorded event only
\* sets the 'no events recorded' error: no request is issued, isUploading
\* stays as it is (false, when no request is outstanding), result, file,
\* events and recording state are unchanged.
C4_EmptyAnnotationSubmit ==
    [][ (CallHandleUpload /\ selectedModel = "annotation" /\ Len(annotationEvents) = 0)
        => /\ error' = MsgNoEvents
           /\ inflight' = inflight
           /\ isUploading' = isUploading
           /\ (Outstanding = 0 => isUploading' = FALSE)
           /\ result' = result
           /\ file' = file
           /\ recording' = recording
           /\ selectedModel' = selectedModel ]_vars

\* the handler has been called in annotation mode with no event recorded
C4_Witness ==
    /\ calls = <<"handleUpload">>
    /\ app = "page"
    /\ selectedModel = "annotation"
    /\ Len(annotationEvents) = 0
    /\ error = MsgNoEvents
    /\ Outstanding = 0
    /\ ~isUploading

\* C5 (as claimed): a submit handler called with the disease model and no
\* file issues no request, does not enter Submitting, and surfaces the
\* missing input as its own error message.
C5_NoInputSurfaced ==
    [][ (CallSubmit /\ selectedModel = "disease" /\ file = Null)
        => /\ inflight' = inflight
           /\ isUploading' = FALSE
           /\ error' = MsgSelectFile ]_vars

\* C6: a request that fails by client timeout ends in Failed with the
\* timeout message of its submission path, never the generic message.
C6_TimeoutMessage ==
    [][ Settling => \A r \in Pending : \A err \in Errors(r) :
          (IsTimeout(err) /\ Reject(r, err) /\ Live)
          => /\ error' = (IF r.cont = "annotation"
                          THEN MsgTimeoutAnnotation ELSE MsgTimeoutFile)
             /\ error' \notin GenericMessages(err)
             /\ isUploading' = FALSE ]_vars

\* an annotation upload has timed out
C6_Witness ==
    /\ app = "page"
    /\ error = MsgTimeoutAnnotation
    /\ ~isUploading
    /\ Outstanding = 0

\* C7 (as claimed): every failure with a 5xx status shows the 'try again
\* later' server error message, whatever the body.
C7_ServerErrorClass ==
    [][ \A r \in Pending : \A err \in Errors(r) :
          (app \in {"page", "legacy"} /\ Is5xx(Status(err)) /\ Reject(r, err) /\ Live)
          => error' = MsgServerError ]_vars

\* C8 (as claimed): a 4xx failure whose body carries a message shows
\* exactly that message.
C8_VerbatimMessage ==
    [][ \A r \in Pending : \A err \in Errors(r) :
          (/\ app \in {"page", "App"}
           /\ Is4xx(Status(err))
           /\ Truthy(MessageOf(r, err))
           /\ Reject(r, err) /\ Live)
          => error' = MessageOf(r, err) ]_vars

\* C8 (amended): a 4xx failure whose body carries a non-empty message under
\* the key the handler reads shows that message unchanged, after the fixed
\* prefix 'Error: ' in page.tsx and alone in App.jsx; without such a message
\* a client-side text is shown.
C8_MessageSurfaced ==
    [][ Settling => \A r \in Pending : \A err \in Errors(r) :
          (app \in {"page", "App"} /\ Is4xx(Status(err)) /\ Reject(r, err) /\ Live)
          => IF Truthy(MessageOf(r, err))
             THEN error' = (IF app = "page" THEN ErrorPrefix ELSE "") \o MessageOf(r, err)
             ELSE error' \in {MsgInvalidAudio, MsgGeneric} \cup GenericMessages(err) ]_vars

\* page.tsx shows a server-provided message behind its prefix
C8_Witness ==
    /\ app = "page"
    /\ error = "Error: Unsupported audio format"
    /\ ~isUploading

\* C9: a failed settlement sets a non-null error, resets isUploading and
\* leaves the file, the events, the duration and the model unchanged, so
\* the submit control is enabled again whenever that input is held.
C9_FailureKeepsInput ==
    [][ Settling => \A r \in Pending : \A err \in Errors(r) :
          (Reject(r, err) /\ Live)
          => /\ error' # Null
             /\ isUploading' = FALSE
             /\ input' = input
             /\ (InputHeld => ~SubmitDisabled') ]_vars

\* an annotation upload has failed; the events are still held and the
\* submit button is enabled
C9_Witness ==
    /\ app = "page"
    /\ selectedModel = "annotation"
    /\ error # Null
    /\ Len(annotationEvents) > 0
    /\ Outstanding = 0
    /\ ~UploadDisabled

\* C10: accepting a file or starting a recording sets result and error to
\* null in that step, whatever they held.
C10_CollectClears ==
    [][ (\/ \E fs \in FileLists : Len(fs) > 0 /\ (onDrop(fs) \/ handleFileChange(fs)) /\ Live
         \/ startRecording /\ Live)
        => result' = NullResult /\ error' = Null ]_vars

\* a recording has been started and a file is held while an earlier
\* request is still pending: result and error are already null
C10_Witness ==
    /\ app = "page"
    /\ isRecording
    /\ Len(annotationEvents) = 0
    /\ file # Null
    /\ Outstanding = 1
    /\ result = NullResult
    /\ error = Null

-----------------------------------------------------------------------------
\* request r was built from the input held now: its form data carries the
\* held file, or its JSON body the held events and duration
BuiltFromHeld(r) ==
    IF r.contentType = Multipart
    THEN r.data = FormData(file)
    ELSE r.data = [events |-> annotationEvents, duration |-> recordingDuration]

\* C11 (as claimed): a result is only ever stored for a request that was
\* built from the input held at that moment, also when the user collected
\* new input while the request was in flight.
C11_NoStaleResult ==
    [][ \A r \in Pending : \A data \in Bodies(r) :
          (Resolve(r, data) /\ Live) => BuiltFromHeld(r) ]_vars

\* the three marks of a session state that hold now
SessionMarks ==
    {m \in {"Submitting", "Succeeded", "Failed"} :
        \/ m = "Submitting" /\ Outstanding > 0
        \/ m = "Succeeded" /\ result # NullResult
        \/ m = "Failed" /\ error # Null}

\* C12 (as claimed): at most one of request outstanding, result held and
\* error held is true in any reachable state.
C12_OneSessionState == Cardinality(SessionMarks) <= 1

\* C13: a successful settlement stores exactly the response body of the
\* settled request; every other change of the held result sets it to null,
\* so the result is never a merge of two responses nor edited in place.
C13_ResultWholesale ==
    [][ /\ \A r \in Pending : \A data \in Bodies(r) :
              (Resolve(r, data) /\ Live) => result' = data
        /\ result' # result
           => \/ result' = NullResult
              \/ \E r \in Pending : result' \in Bodies(r) /\ inflight' # inflight ]_vars

\* a response of the event-detection shape is held as it was received: it
\* carries events and nothing of the classification shape
C13_Witness ==
    /\ app = "legacy"
    /\ Outstanding = 0
    /\ result # NullResult
    /\ "events" \in DOMAIN result
    /\ "class_probabilities" \notin DOMAIN result
    /\ file = result.filename

\* the JSON payload of the annotation variant: { events, duration }
AnnotationPayload == [events |-> annotationEvents, duration |-> recordingDuration]

\* C14 (as claimed): a submit with the disease variant issues a multipart
\* body built from the file, a submit with the annotation variant a JSON
\* body {events, duration} to /predict_annotation, in every component that
\* offers the two variants.
C14_VariantShape ==
    [][ (Submit /\ app \in {"page", "legacy"})
        => \E req \in BagToSet(inflight') :
              /\ Issues(req)
              /\ IF selectedModel = "disease"
                 THEN /\ req.contentType = Multipart
                      /\ req.data = FormData(file)
                      /\ req.endpoint = "/predict_disease"
                 ELSE /\ req.contentType = Json
                      /\ req.data = AnnotationPayload
                      /\ req.endpoint = "/predict_annotation" ]_vars

\* C14 (amended): in page.tsx the request has the shape of the selected
\* variant, multipart from the file for disease and JSON {events, duration}
\* to /predict_annotation for annotation, whatever else is held; part_000
\* and App.jsx, which collect nothing but a file, send that file as
\* multipart to the endpoint of the selected variant.
C14_RequestShape ==
    [][ Submit
        => \E req \in BagToSet(inflight') :
              /\ Issues(req)
              /\ req.url = API_BASE_URL \o req.endpoint
              /\ IF app = "page" /\ selectedModel = "annotation"
                 THEN /\ req.contentType = Json
                      /\ req.data = AnnotationPayload
                      /\ req.endpoint = "/predict_annotation"
                 ELSE /\ req.contentType = Multipart
                      /\ req.data = FormData(file)
                      /\ req.endpoint = (CASE selectedModel = "disease" -> "/predict_disease"
                                           [] selectedModel = "annotation" -> "/predict_annotation"
                                           [] OTHER -> "/predict_event") ]_vars

\* an annotation request carrying the recorded events is in flight while a
\* file is held as well
C14_Witness ==
    /\ app = "page"
    /\ selectedModel = "annotation"
    /\ file # Null
    /\ Len(annotationEvents) > 0
    /\ \E r \in Pending :
          /\ r.contentType = Json
          /\ r.data = AnnotationPayload
          /\ r.endpoint = "/predict_annotation"

\* C15 (as claimed): while a request is outstanding, the held input it was
\* built from is not changed, replaced or removed by any step.
C15_SubmittedInputFrozen ==
    [][ \A r \in Pending :
          (BuiltFromHeld(r) /\ r \in BagToSet(inflight'))
          => BuiltFromHeld(r)' ]_vars

\* C16: stopRecording ends the recording, keeps the events and stores the
\* time elapsed since the start of the recording as recordingDuration; a
\* recording's start time is the clock at startRecording and stays as set
\* while the recording runs; addCrackle and addWheeze called while no
\* recording runs leave the events and the duration as they are.
C16_StopFreezes ==
    [][ /\ CallStartRecording => (isRecording' /\ recordStartTime' = now)
        /\ (isRecording /\ ~CallStartRecording /\ ~CallStopRecording)
           => (isRecording' /\ recordStartTime' = recordStartTime)
        /\ (CallStopRecording /\ isRecording)
           => /\ ~isRecording'
              /\ annotationEvents' = annotationEvents
              /\ recordingDuration' = Seconds(now - recordStartTime)
        /\ ((CallAddCrackle \/ CallAddWheeze) /\ ~isRecording)
           => /\ annotationEvents' = annotationEvents
              /\ recordingDuration' = recordingDuration
              /\ ~isRecording' ]_vars

\* a recording with one event was stopped half a second after its start and
\* a tag was pressed afterwards: the event sequence is as it was
C16_Witness ==
    /\ calls = <<"stopRecording", "addCrackle">>
    /\ ~isRecording
    /\ Len(annotationEvents) = 1
    /\ recordingDuration = Seconds(TickMs)
    /\ recordStartTime = NullTime

\* C17: onDrop or handleFileChange called with an empty file list changes
\* nothing: file, result, error, isUploading, the model, the recording and
\* the outstanding requests are as before.
C17_EmptyListIgnored ==
    [][ (\E fs \in FileLists :
            /\ Len(fs) = 0
            /\ \/ onDrop(fs) /\ Called("onDrop")
               \/ handleFileChange(fs) /\ Called("handleFileChange"))
        => /\ file' = file
           /\ result' = result
           /\ error' = error
           /\ isUploading' = isUploading
           /\ selectedModel' = selectedModel
           /\ recording' = recording
           /\ inflight' = inflight ]_vars

\* onDrop has been called on a session that holds a file and an error, and
\* both are still there: the list it was given was empty
C17_Witness ==
    /\ calls = <<"onDrop">>
    /\ file # Null
    /\ error # Null

\* C18: choosing another model in the select changes selectedModel and
\* nothing else: the file, the events, the duration, the recording flag
\* and start time, the result, the error, isUploading and the outstanding
\* requests are as before.
C18_ModelSwitchFrame ==
    [][ SelectModel
        => /\ selectedModel' # selectedModel
           /\ selectedModel' \in Models
           /\ file' = file
           /\ recording' = recording
           /\ result' = result
           /\ error' = error
           /\ isUploading' = isUploading
           /\ inflight' = inflight ]_vars

\* a recording started under the annotation model is still running, with
\* its event, its file and its pending request, after the switch to disease
C18_Witness ==
    /\ app = "page"
    /\ selectedModel = "disease"
    /\ isRecording
    /\ Len(annotationEvents) > 0
    /\ file # Null
    /\ isUploading
    /\ \E r \in Pending : r.contentType = Json

\* C19: after resetForm the selected file, the result and the error are
\* null and the selected model is the one selected before.
C19_ResetDiscards ==
    [][ ClickReset
        => /\ selectedFile' = Null
           /\ result' = NullResult
           /\ error' = Null
           /\ selectedModel' = selectedModel ]_vars

\* the form was reset while a request for the event model was pending:
\* no file is held (only a reset can take the file away in App.jsx) and the
\* model is still 'event'
C19_Witness ==
    /\ app = "App"
    /\ selectedModel = "event"
    /\ selectedFile = Null
    /\ result = NullResult
    /\ error = Null
    /\ isLoading
    /\ \E r \in Pending : r.endpoint = "/predict_event"

\* position of the entry with label key in the map of the held result
EntryIndex(key) ==
    CHOOSE i \in 1..Len(result.class_probabilities) :
        result.class_probabilities[i].key = key

\* C20: the probability list shown for a classification result is in
\* non-increasing order of probability, entries of equal probability are in
\* the order they have in the map, and every row is an entry of the map
\* (all of them where the list is not cut).
C20_SortedStable ==
    ShowsProbabilities
    => LET list == ProbabilityList(result)
           entries == ObjectEntries(result.class_probabilities)
       IN /\ \A i, j \in 1..Len(list) :
                i < j => /\ list[i][2] >= list[j][2]
                         /\ (list[i][2] = list[j][2]
                             => EntryIndex(list[i][1]) < EntryIndex(list[j][1]))
          /\ \A i \in 1..Len(list) : list[i] = entries[EntryIndex(list[i][1])]
          /\ (app = "legacy" => Len(list) = Len(entries))

\* a map is shown whose entries are not in order and hold a tie: a lower
\* probability stands before two equal higher ones
C20_Witness ==
    /\ ShowsProbabilities
    /\ app = "legacy"
    /\ LET probs == result.class_probabilities
       IN /\ Len(probs) = 3
          /\ probs[1].value < probs[2].value
          /\ probs[2].value = probs[3].value
    /\ ProbabilityList(result)[1][1] = ClassLabel(2)
    /\ ProbabilityList(result)[2][1] = ClassLabel(3)

\* C21 (as claimed): the probability list shown for a classification
\* result has one row for every label of the map, none dropped and none
\* twice, whatever the size of the map.
C21_AllLabelsOnce ==
    ShowsProbabilities
    => LET list == ProbabilityList(result)
           entries == ObjectEntries(result.class_probabilities)
       IN \A e \in 1..Len(entries) :
             Cardinality({i \in 1..Len(list) : list[i][1] = entries[e][1]}) = 1

\* C22: for every interval of a well-formed event-detection response the
\* marker has left = start / duration and width = (end - start) / duration
\* (as CSS percentages, 100 times the fraction), and left, width and
\* left + width lie between 0% and 100%.
C22_MarkerPosition ==
    ShowsEvents
    => LET markers == EventMarkers(result)
           duration == result.audio_info.duration
       IN \A i \in 1..Len(markers) :
             LET left == markers[i].left
                 width == markers[i].width
                 event == result.events[i]
             IN /\ left.den > 0 /\ width.den > 0
                /\ left.num * duration = 100 * event.start * left.den
                /\ width.num * duration = 100 * (event.end - event.start) * width.den
                /\ 0 <= left.num /\ left.num <= 100 * left.den
                /\ 0 <= width.num /\ width.num <= 100 * width.den
                /\ left.num * width.den + width.num * left.den
                      <= 100 * left.den * width.den

\* page.tsx shows a marker that starts inside the audio and ends at its end
C22_Witness ==
    /\ app = "page"
    /\ ShowsEvents
    /\ result.events[1].start > 0
    /\ result.events[1].start < result.events[1].end
    /\ result.events[1].end = result.audio_info.duration
    /\ EventMarkers(result)[1].left.num > 0

\* everything but the recorded events and the harness' call log is unchanged
OnlyEventsChange ==
    UNCHANGED <<app, file, selectedModel, isUploading, result, error,
                isRecording, recordStartTime, recordingDuration, now, inflight>>

\* C23: addCrackle / addWheeze called while no recording runs change
\* nothing; called while a recording runs they append exactly one event
\* (crackle of duration 0.5 or wheeze of duration 1.0, timestamped with the
\* time since the recording started) behind the events already there, and
\* change nothing else; the timestamps of the sequence never decrease.
C23_TagsAppendInWindow ==
    /\ [][ /\ ((CallAddCrackle \/ CallAddWheeze) /\ ~isRecording)
              => (annotationEvents' = annotationEvents /\ OnlyEventsChange)
           /\ (CallAddCrackle /\ isRecording)
              => /\ annotationEvents' =
                       Append(annotationEvents,
                              [type |-> "crackle",
                               timestamp |-> Seconds(now - recordStartTime),
                               duration |-> CrackleDuration])
                 /\ OnlyEventsChange
           /\ (CallAddWheeze /\ isRecording)
              => /\ annotationEvents' =
                       Append(annotationEvents,
                              [type |-> "wheeze",
                               timestamp |-> Seconds(now - recordStartTime),
                               duration |-> WheezeDuration])
                 /\ OnlyEventsChange ]_vars
    /\ [](\A i, j \in 1..Len(annotationEvents) :
             i < j => annotationEvents[i].timestamp <= annotationEvents[j].timestamp)

\* a crackle was tagged at the start of the recording and a wheeze half a
\* second later
C23_Witness ==
    /\ calls = <<"addCrackle", "addWheeze">>
    /\ isRecording
    /\ Len(annotationEvents) >= 2
    /\ LET n == Len(annotationEvents)
       IN /\ annotationEvents[n - 1] =
                [type |-> "crackle", timestamp |-> 0, duration |-> CrackleDuration]
          /\ annotationEvents[n] =
                [type |-> "wheeze", timestamp |-> Seconds(TickMs),
                 duration |-> WheezeDuration]

\* C24: isUploading (isLoading) is true exactly while a request is
\* outstanding: the step that issues a request sets it, the step that
\* settles a request resets it, and no other step changes it.
C24_BusyIffOutstanding ==
    /\ [](isUploading <=> Outstanding > 0)
    /\ [][ /\ BagCardinality(inflight') > BagCardinality(inflight) => isUploading'
           /\ Settling => ~isUploading'
           /\ isUploading' # isUploading => inflight' # inflight ]_vars

\* a request is outstanding and the flag is set, although the file it was
\* built from has been removed and the other model selected meanwhile
C24_Witness ==
    /\ isUploading
    /\ Outstanding = 1
    /\ app = "page"
    /\ file = Null
    /\ selectedModel = "annotation"
    /\ \E r \in Pending : r.contentType = Multipart

\* C25: while a request is outstanding the error is null: the step that
\* issues the request leaves the error null, and no step taken while the
\* request stays outstanding sets one.
C25_NoErrorInFlight ==
    /\ [](Outstanding > 0 => error = Null)
    /\ [][ /\ BagCardinality(inflight') > BagCardinality(inflight) => error' = Null
           /\ (Outstanding > 0 /\ inflight' = inflight) => error' = Null ]_vars

\* a request is outstanding, the file it was built from has been replaced
\* meanwhile, and no error is held
C25_Witness ==
    /\ app = "legacy"
    /\ Outstanding = 1
    /\ error = Null
    /\ file # Null
    /\ \E r \in Pending : ~BuiltFromHeld(r)

\* C26 (as claimed): the duration of every annotation request sent to
\* /predict_annotation is at least the timestamp of each of its events.
C26_DurationCoversEvents ==
    \A r \in Pending :
        r.contentType = Json
        => \A i \in 1..Len(r.data.events) :
              r.data.events[i].timestamp <= r.data.duration


\* C27: in App.jsx a result is never held while selectedFile is null: after
\* resetForm the result stays null until a file is selected again and
\* submitted, whatever request was in flight when the reset happened.
C27_NoResultWithoutFile ==
    app = "App" => (result # NullResult => file # Null)

\* C28: the remove (x) button changes only file: a step of page.tsx or
\* part_000 that takes the held file away leaves the result, the error, the
\* in-flight status, the chosen model and the annotation state as they were,
\* so a previous result can stay held with no file selected.
C28_RemoveChangesOnlyFile ==
    [][ (app \in {"page", "legacy"} /\ file # Null /\ file' = Null)
        => UNCHANGED <<result, error, isUploading, inflight, selectedModel,
                       isRecording, recordStartTime, annotationEvents,
                       recordingDuration>> ]_vars

\* a result of part_000 is still held after its file was removed
C28_Witness ==
    /\ app = "legacy" /\ file = Null /\ result # NullResult
    /\ Outstanding = 0 /\ ~isUploading

\* C29: isPlaying is true only if a mounted audio element with a source is
\* actually playing, across play/pause toggles, end of playback, replacement
\* or clearing of the result, and event-detection results shown when no file
\* is held.
C29_PlayingAgrees ==
    isPlaying => (Mounted /\ HasSource /\ ~audio.paused)

\* C30: the recording flag and the window start time stay in step: in every
\* reachable state isRecording is true if and only if recordStartTime is
\* non-null, whatever sequence of startRecording, stopRecording, tag
\* presses, clearAnnotations, model switches and submissions led there.
C30_RecordingInStep ==
    isRecording <=> recordStartTime # NullTime

\* a recording window was opened and, some time later, closed
C30_Witness ==
    /\ app = "page" /\ ~isRecording /\ recordStartTime = NullTime
    /\ recordingDuration > 0

====
